---------------------------- MODULE Spec2Model ----------------------------
(***************************************************************************)
(* DASH manifest resolution of XstreamDL-CLI: DASHParser.walk_period and   *)
(* the handlers it calls (extractors/dash/parser.py), with the Segment     *)
(* record of models/segment.py.                                            *)
(*                                                                         *)
(* A Python str is a sequence of atoms: a one-character digit "0".."9", a  *)
(* literal chunk such as "seg-", or a placeholder such as "$Number$".      *)
(* str.replace, the `in` test and re.match act on the atoms.  A value      *)
(* that may be None is a sequence of length at most one: <<>> is None.     *)
(* A float is a fraction <<num, den>>.                                     *)
(***************************************************************************)
EXTENDS Integers, Sequences, FiniteSets, TLC

\* ------------------------------------------------------------------ bounds
\* Largest repeat count r of one S run.
MaxR == 2
\* Largest number of Periods of a manifest.
MaxPeriods == 2

\* ----------------------------------------------------------- Python values
None == <<>>
Some(x) == <<x>>
IsNone(o) == o = <<>>
Val(o) == o[1]
NoneStr == "<None>"

Digit == <<"0", "1", "2", "3", "4", "5", "6", "7", "8", "9">>

\* str(n) for an int n >= 0: its decimal digits.
RECURSIVE Str(_)
Str(n) == IF n < 10 THEN <<Digit[n + 1]>> ELSE Str(n \div 10) \o <<Digit[(n % 10) + 1]>>

DigitValue(c) == CHOOSE v \in 0..9 : Digit[v + 1] = c
IsDigit(c) == \E v \in 0..9 : Digit[v + 1] = c

\* int(s) for a string of digits.
RECURSIVE PyInt(_)
PyInt(s) == IF s = <<>> THEN 0 ELSE 10 * PyInt(SubSeq(s, 1, Len(s) - 1)) + DigitValue(s[Len(s)])

RECURSIVE Fill(_, _)
Fill(c, n) == IF n <= 0 THEN <<>> ELSE <<c>> \o Fill(c, n - 1)

\* format(s, f'{fill}>{width}'): s right-aligned in width, padded with fill.
FormatRight(s, fill, width) == Fill(fill, width - Len(s)) \o s

\* tok in url
Contains(url, tok) == \E i \in 1..Len(url) : url[i] = tok

\* url.replace(tok, repl): every occurrence.
RECURSIVE Replace(_, _, _)
Replace(url, tok, repl) ==
    IF url = <<>> THEN <<>>
    ELSE (IF Head(url) = tok THEN repl ELSE <<Head(url)>>) \o Replace(Tail(url), tok, repl)

\* The placeholders $Number%0Nd$ a template may hold, with the digits the
\* group (\d+) of the pattern '.*?\$Number%(\d+)d\$' captures.
FmtTokens == {"$Number%02d$", "$Number%03d$"}
FmtLength(tok) == IF tok = "$Number%02d$" THEN <<"0", "2">> ELSE <<"0", "3">>

\* re.match('.*?\$Number%(\d+)d\$', url): the first such placeholder, or None.
MatchFmt(url) ==
    IF \E i \in 1..Len(url) : url[i] \in FmtTokens
    THEN Some(url[CHOOSE i \in 1..Len(url) :
                    /\ url[i] \in FmtTokens
                    /\ \A j \in 1..(i - 1) : url[j] \notin FmtTokens])
    ELSE None

\* round(p / q) of Python 3 for p >= 0, q > 0: to nearest, a tie to even.
Round(p, q) ==
    LET f == p \div q
        r == p % q
    IN  IF 2 * r < q THEN f
        ELSE IF 2 * r > q THEN f + 1
        ELSE IF f % 2 = 0 THEN f ELSE f + 1

\* ------------------------------------------------------ models/segment.py
\* Segment(): the fields the resolver reads or writes.
Segment ==
    [name |-> <<>>, index |-> 0, suffix |-> <<".ts">>, url |-> <<>>,
     duration |-> <<0, 1>>, segment_type |-> "normal"]

\* f'{self.index:0>4}{self.suffix}'
SegmentName(seg) == FormatRight(Str(seg.index), "0", 4) \o seg.suffix

set_index(seg, index) ==
    LET s == [seg EXCEPT !.index = index] IN [s EXCEPT !.name = SegmentName(s)]

add_offset_for_name(seg, offset) ==
    LET s == [seg EXCEPT !.index = seg.index + offset] IN [s EXCEPT !.name = SegmentName(s)]

\* ------------------------------------------------- DASHStream (stream.py)
\* walk_s calls set_segment_duration before set_media_url for every segment,
\* the first included, and walk_period drops a last segment whose url is '':
\* a stream always ends in an open segment that the next url fills.
\* path, origin, st and tl record how and from which Representation, template
\* and timeline the stream was resolved; the program does not read them.
append_segment(stream) ==
    [stream EXCEPT !.segments = @ \o <<set_index(Segment, Len(stream.segments))>>]

DASHStream(sindex, base_url) ==
    append_segment([index |-> sindex, base_url |-> base_url, skey |-> <<NoneStr, NoneStr>>,
                    stream_type |-> NoneStr, segments |-> <<>>,
                    path |-> "none", origin |-> <<0, 0, 0>>, st |-> None, tl |-> None])

IsAbsolute(url) == url # <<>> /\ Head(url) = "http://"

\* A relative url is resolved against the stream's base url.
fix_url(stream, url) == IF IsAbsolute(url) THEN url ELSE stream.base_url \o url

fix_base_url(stream, url) == [stream EXCEPT !.base_url = fix_url(stream, url)]

SetLast(stream, seg) == [stream EXCEPT !.segments[Len(stream.segments)] = seg]
Last(stream) == stream.segments[Len(stream.segments)]

set_segment_duration(stream, duration) ==
    SetLast(stream, [Last(stream) EXCEPT !.duration = duration])

set_segments_duration(stream, duration) ==
    [stream EXCEPT !.segments = [i \in 1..Len(@) |-> [@[i] EXCEPT !.duration = duration]]]

set_init_url(stream, url) ==
    append_segment(SetLast(stream, [Last(stream) EXCEPT !.url = fix_url(stream, url),
                                                        !.segment_type = "init"]))

set_media_url(stream, url) ==
    append_segment(SetLast(stream, [Last(stream) EXCEPT !.url = fix_url(stream, url)]))

\* The literal BaseURL text, as the one segment of the stream.
set_subtitle_url(stream, url) ==
    SetLast(stream, [Last(stream) EXCEPT !.url = url, !.segment_type = "subtitle"])

\* The stream's base url as its one segment, lasting the whole Period.
base2url(stream, duration) ==
    SetLast(stream, [Last(stream) EXCEPT !.url = stream.base_url, !.duration = duration])

\* other's segments follow self's, their indices moved past self's.
update(self, other) ==
    [self EXCEPT !.segments =
        @ \o [i \in 1..Len(other.segments) |->
                add_offset_for_name(other.segments[i], Len(self.segments))]]

\* ------------------------------------------------- the manifest object tree
\* A node is a record; node.Tag is find('Tag'), its children with that tag in
\* document order.  S = [d, r]; a SegmentTimeline is the sequence of its S.
SegmentTemplate(initialization, media, timescale, duration, startNumber, pto, timelines) ==
    [initialization |-> initialization, media |-> media, timescale |-> timescale,
     duration |-> duration, startNumber |-> startNumber,
     presentationTimeOffset |-> pto, SegmentTimeline |-> timelines]

Representation(id, mimeType, baseurls, templates, timelines) ==
    [id |-> id, bandwidth |-> 500, mimeType |-> mimeType, BaseURL |-> baseurls,
     SegmentTemplate |-> templates, SegmentTimeline |-> timelines]

AdaptationSet(id, mimeType, roles, templates, representations) ==
    [id |-> id, mimeType |-> mimeType, Role |-> roles, SegmentTemplate |-> templates,
     Representation |-> representations]

Period(duration, adaptationsets) == [duration |-> duration, AdaptationSet |-> adaptationsets]

MPD(mediaPresentationDuration, periods) ==
    [mediaPresentationDuration |-> mediaPresentationDuration, Period |-> periods]

get_url(st) == st.initialization
get_media_url(st) == st.media

\* ------------------------------------------------------ the inputs checked
SeqsUpTo(S, n) == UNION {[1..k -> S] : k \in 0..n}

SRuns == [d : {2, 4}, r : 0..MaxR]
Timelines == SeqsUpTo(SRuns, 2)
OneRun == <<[d |-> 2, r |-> 2]>>

Inits == {None, Some(<<"init-", "$RepresentationID$">>)}
Medias ==
    {<<"seg-", "$Number$", ".m4s">>, <<"seg-", "$Number%02d$">>,
     <<"$RepresentationID$", "-", "$Time$">>, <<"$Bandwidth$", "$Number$", "$Time$">>, <<>>}
StartNumbers == {1, 99}
Offsets == {0, 5}
Timescales == {1, 2}
TickDurations == {0, 4}
PeriodDurations == {None, <<0, 1>>, <<5, 1>>, <<12, 1>>}
BaseUrls == {<<>>, <<"http://h/">>}
Video == "video/mp4"
Jpeg == "image/jpeg"
MimeTypes == {NoneStr, Video, Jpeg}

PlainTemplate(timelines) ==
    SegmentTemplate(Some(<<"init">>), <<"seg-", "$Number$", ".m4s">>, 1, 4, 1, 0, timelines)

OneTrack(asid, rid, baseurls, astemplates, templates) ==
    AdaptationSet(asid, Video, <<>>, astemplates,
                  <<Representation(rid, NoneStr, baseurls, templates, <<>>)>>)

Input(split, base_url, mpd) == [split |-> split, base_url |-> base_url, mpd |-> mpd]

\* One Representation under a template with one explicit timeline.
TimelineInputs ==
    {Input(FALSE, b,
           MPD(None, <<Period(<<12, 1>>,
               <<OneTrack("a0", "v0", <<>>,
                          <<SegmentTemplate(i, m, ts, 4, n, o, <<tl>>)>>, <<>>)>>)>>)) :
        b \in BaseUrls, i \in Inits, m \in Medias, ts \in Timescales,
        n \in StartNumbers, o \in Offsets, tl \in Timelines}

\* One Representation owning a template without timeline, in a manifest of
\* one Period or followed by a second Period.
SecondPeriod ==
    Period(<<12, 1>>, <<OneTrack("a0", "v0", <<>>, <<PlainTemplate(<<OneRun>>)>>, <<>>)>>)

NumberingInputs ==
    {Input(FALSE, <<"http://h/">>,
           MPD(mpdd, <<Period(pd,
               <<OneTrack("a0", "v0", <<>>, <<>>,
                          <<SegmentTemplate(i, m, ts, d, n, 0, <<>>)>>)>>)>> \o more)) :
        mpdd \in {None, Some(<<12, 1>>)}, pd \in PeriodDurations, i \in Inits, m \in Medias,
        ts \in Timescales, d \in TickDurations, n \in StartNumbers,
        more \in {<<>>, <<SecondPeriod>>}}

\* Every count 0..2 of SegmentTemplate at either level, each owning 0..2
\* SegmentTimeline, with 0..2 BaseURL, a Role and a SegmentTimeline child.
TemplateLists == SeqsUpTo({PlainTemplate(tls) : tls \in SeqsUpTo({OneRun}, 2)}, 2)
RoleLists == {<<>>, <<"subtitle">>, <<"main">>}

StructureInputs ==
    {Input(FALSE, <<"http://h/">>,
           MPD(None, <<Period(<<12, 1>>,
               <<AdaptationSet("a0", Video, roles, ats,
                     <<Representation("v0", NoneStr, bs, rts, tls)>>),
                 OneTrack("a1", "v1", <<>>, <<>>, <<PlainTemplate(<<OneRun>>)>>)>>)>>)) :
        roles \in RoleLists, ats \in TemplateLists, rts \in TemplateLists,
        bs \in SeqsUpTo({<<"sub.vtt">>}, 2), tls \in SeqsUpTo({OneRun}, 1)}

\* The mime type at either level.
MimeInputs ==
    {Input(FALSE, <<"http://h/">>,
           MPD(None, <<Period(<<12, 1>>,
               <<AdaptationSet("a0", am, <<>>, <<PlainTemplate(<<OneRun>>)>>,
                     <<Representation("v0", rm, <<>>, <<>>, <<>>),
                       Representation("v1", NoneStr, <<>>, <<>>, <<>>)>>)>>)>>)) :
        am \in MimeTypes, rm \in MimeTypes}

\* Up to MaxPeriods Periods of one or two tracks: a timeline track, a static
\* file, a Representation without any template.
TimelineTrack(rid) == OneTrack("a0", rid, <<>>, <<PlainTemplate(<<OneRun>>)>>, <<>>)
StaticTrack(rid) == OneTrack("a0", rid, <<<<"file.mp4">>>>, <<>>, <<>>)
EmptyTrack(rid) == OneTrack("a0", rid, <<>>, <<>>, <<>>)
Rids == {"v0", "v1"}

PeriodShapes ==
    {<<TimelineTrack(r)>> : r \in Rids} \cup {<<StaticTrack(r)>> : r \in Rids}
    \cup {<<EmptyTrack(r)>> : r \in Rids}
    \cup {<<TimelineTrack(r1), StaticTrack(r2)>> : r1 \in Rids, r2 \in Rids}

MergeInputs ==
    {Input(split, <<"http://h/">>,
           MPD(None, [i \in 1..Len(ps) |-> Period(<<12, 1>>, ps[i])])) :
        split \in BOOLEAN, ps \in UNION {[1..k -> PeriodShapes] : k \in 1..MaxPeriods}}

Inputs == TimelineInputs \cup NumberingInputs \cup StructureInputs \cup MimeInputs \cup MergeInputs

\* ------------------------------------------------------------------- state
VARIABLES
    mpd,        \* the manifest tree; walk_period writes periods[0].duration
    args,       \* self.args: [split]
    uris,       \* [base_url]
    pc,         \* where walk_period is: start, periods, adaptationsets,
                \* representations, walk_s, generate_v1, trim, merge, done, raised
    p, a, r,    \* the Period, AdaptationSet and Representation being walked
    stream,     \* the DASHStream being resolved
    frame,      \* the locals of walk_s / generate_v1
    streams,    \* walk_period's streams
    resolved,   \* streams as they were when the trim began (history)
    result,     \* what walk_period returned
    raised      \* the exception that left walk_period, "" if none

vars == <<mpd, args, uris, pc, p, a, r, stream, frame, streams, resolved, result, raised>>

NoStream == DASHStream(0, <<>>)
NoFrame ==
    [si |-> 0, n |-> 0, interval |-> <<0, 1>>, start_number |-> 0, time_offset |-> 0,
     number |-> 0, stop |-> 0]

Init ==
    /\ \E in \in Inputs :
        /\ mpd = in.mpd
        /\ args = [split |-> in.split]
        /\ uris = [base_url |-> in.base_url]
    /\ pc = "start"
    /\ p = 0 /\ a = 0 /\ r = 0
    /\ stream = NoStream
    /\ frame = NoFrame
    /\ streams = <<>>
    /\ resolved = <<>>
    /\ result = <<>>
    /\ raised = ""

Raise(exc) ==
    /\ pc' = "raised"
    /\ raised' = exc
    /\ UNCHANGED <<mpd, args, uris, p, a, r, stream, frame, streams, resolved, result>>

CurPeriod == mpd.Period[p]
CurAdaptationSet == CurPeriod.AdaptationSet[a]
CurRepresentation == CurAdaptationSet.Representation[r]

\* walk_period, to the loop over the periods: the duration of a lone Period.
WalkPeriod ==
    /\ pc = "start"
    /\ mpd' = IF Len(mpd.Period) = 1 /\ IsNone(mpd.Period[1].duration)
              THEN [mpd EXCEPT !.Period[1].duration =
                        IF ~IsNone(mpd.mediaPresentationDuration)
                        THEN Val(mpd.mediaPresentationDuration) ELSE <<0, 1>>]
              ELSE mpd
    /\ pc' = "periods"
    /\ p' = 1
    /\ UNCHANGED <<args, uris, a, r, stream, frame, streams, resolved, result, raised>>

\* for period in periods: walk_adaptationset(period, ...)
NextPeriod ==
    /\ pc = "periods"
    /\ IF p <= Len(mpd.Period)
       THEN pc' = "adaptationsets" /\ a' = 1
       ELSE pc' = "trim" /\ a' = a
    /\ UNCHANGED <<mpd, args, uris, p, r, stream, frame, streams, resolved, result, raised>>

\* walk_adaptationset: one turn of its loop, or its return.
walk_adaptationset ==
    /\ pc = "adaptationsets"
    /\ IF a <= Len(CurPeriod.AdaptationSet)
       THEN IF CurAdaptationSet.mimeType = Jpeg
            THEN a' = a + 1 /\ pc' = pc /\ r' = r /\ p' = p
            ELSE pc' = "representations" /\ r' = 1 /\ a' = a /\ p' = p
       ELSE pc' = "periods" /\ p' = p + 1 /\ a' = a /\ r' = r
    /\ UNCHANGED <<mpd, args, uris, stream, frame, streams, resolved, result, raised>>

\* ------------------------------------------------- choosing the addressing
Goto(to, st, tl) == [to |-> to, st |-> st, tl |-> tl]

walk_segmenttimeline(segmenttemplate) ==
    LET segmenttimelines == segmenttemplate.SegmentTimeline
    IN  IF Len(segmenttimelines) # 1
        THEN Goto("return", None, None)
        ELSE Goto("walk_s", Some(segmenttemplate), Some(segmenttimelines[1]))

walk_segmenttemplate(representation) ==
    LET segmenttemplates == representation.SegmentTemplate
    IN  IF Len(segmenttemplates) # 1
        THEN Goto("return", None, None)
        ELSE IF Len(segmenttemplates[1].SegmentTimeline) = 0
        THEN Goto("generate_v1", Some(segmenttemplates[1]), None)
        ELSE walk_segmenttimeline(segmenttemplates[1])

\* The branch walk_representation takes for one Representation.
Addressing(adaptationset, representation) ==
    LET Roles == adaptationset.Role
        BaseURLs == representation.BaseURL
        segmenttemplates == adaptationset.SegmentTemplate
    IN  IF Len(BaseURLs) = 1 /\ Len(Roles) = 1 /\ Roles[1] = "subtitle"
        THEN Goto("subtitle", None, None)
        ELSE IF /\ Len(BaseURLs) = 1
                /\ Len(segmenttemplates) = 0
                /\ Len(representation.SegmentTimeline) = 0
        THEN Goto("base2url", None, None)
        ELSE IF Len(segmenttemplates) = 0
        THEN walk_segmenttemplate(representation)
        ELSE IF Len(segmenttemplates) = 1 /\ Len(segmenttemplates[1].SegmentTimeline) = 1
        THEN walk_segmenttimeline(segmenttemplates[1])
        ELSE Goto("generate_v1", Some(segmenttemplates[1]), None)

\* The stream walk_representation builds before it chooses the addressing.
NewStream(adaptationset, representation) ==
    LET s0 == DASHStream(Len(streams), uris.base_url)
        s1 == [s0 EXCEPT !.skey = <<adaptationset.id, representation.id>>,
                         !.stream_type = IF representation.mimeType = NoneStr
                                         THEN adaptationset.mimeType
                                         ELSE representation.mimeType,
                         !.origin = <<p, a, r>>]
    IN  IF Len(representation.BaseURL) = 1
           /\ ~(Len(adaptationset.Role) = 1 /\ adaptationset.Role[1] = "subtitle")
        THEN fix_base_url(s1, representation.BaseURL[1])
        ELSE s1

\* walk_s, to its loop: the initialization url.
WalkSInit(s, st, representation) ==
    LET init_url == get_url(st)
    IN  IF ~IsNone(init_url)
        THEN set_init_url(s, Replace(Replace(Val(init_url), "$RepresentationID$",
                                             <<representation.id>>),
                                     "$Bandwidth$", Str(representation.bandwidth)))
        ELSE s

\* generate_v1, to its loop: the initialization url, interval and repeat, or
\* the exception raised on the way.
GenerateV1Init(s, period, rid, st) ==
    LET init_url == get_url(st)
        out(exc, s2, interval, repeat) ==
            [exc |-> exc, stream |-> s2, interval |-> interval, repeat |-> repeat]
    IN  IF IsNone(init_url) THEN out("TypeError", s, <<0, 1>>, 0)
        ELSE IF st.timescale = 0 THEN out("ZeroDivisionError", s, <<0, 1>>, 0)
        ELSE IF IsNone(period.duration) THEN out("TypeError", s, <<0, 1>>, 0)
        ELSE IF st.duration = 0 THEN out("ZeroDivisionError", s, <<0, 1>>, 0)
        ELSE out("", set_init_url(s, Replace(Val(init_url), "$RepresentationID$", <<rid>>)),
                 <<st.duration, st.timescale>>,
                 Round(period.duration[1] * st.timescale, period.duration[2] * st.duration))

\* walk_representation: one Representation, to the loop of walk_s or of
\* generate_v1 when its addressing has one.
walk_representation ==
    /\ pc = "representations"
    /\ r <= Len(CurAdaptationSet.Representation)
    /\ LET go == Addressing(CurAdaptationSet, CurRepresentation)
           s == [NewStream(CurAdaptationSet, CurRepresentation) EXCEPT
                    !.path = IF go.to = "return" THEN "none" ELSE go.to,
                    !.st = go.st, !.tl = go.tl]
           g == GenerateV1Init(s, CurPeriod, CurRepresentation.id, Val(go.st))
       IN  CASE go.to = "subtitle" ->
                    /\ streams' = Append(streams, set_subtitle_url(s, CurRepresentation.BaseURL[1]))
                    /\ r' = r + 1
                    /\ UNCHANGED <<mpd, args, uris, pc, p, a, stream, frame, resolved, result, raised>>
             [] go.to = "base2url" ->
                    /\ streams' = Append(streams, base2url(s, CurPeriod.duration))
                    /\ r' = r + 1
                    /\ UNCHANGED <<mpd, args, uris, pc, p, a, stream, frame, resolved, result, raised>>
             [] go.to = "return" ->
                    /\ streams' = Append(streams, s)
                    /\ r' = r + 1
                    /\ UNCHANGED <<mpd, args, uris, pc, p, a, stream, frame, resolved, result, raised>>
             [] go.to = "walk_s" ->
                    /\ stream' = WalkSInit(s, Val(go.st), CurRepresentation)
                    /\ frame' = [NoFrame EXCEPT !.start_number = Val(go.st).startNumber,
                                                !.time_offset = Val(go.st).presentationTimeOffset]
                    /\ pc' = "walk_s"
                    /\ UNCHANGED <<mpd, args, uris, p, a, r, streams, resolved, result, raised>>
             [] go.to = "generate_v1" ->
                    IF g.exc # ""
                    THEN Raise(g.exc)
                    ELSE /\ stream' = g.stream
                         /\ frame' = [NoFrame EXCEPT !.interval = g.interval,
                                                     !.number = Val(go.st).startNumber,
                                                     !.stop = g.repeat + Val(go.st).startNumber]
                         /\ pc' = "generate_v1"
                         /\ UNCHANGED <<mpd, args, uris, p, a, r, streams, resolved, result, raised>>

\* walk_representation returns: back in walk_adaptationset's loop.
walk_representation_return ==
    /\ pc = "representations"
    /\ r > Len(CurAdaptationSet.Representation)
    /\ pc' = "adaptationsets"
    /\ a' = a + 1
    /\ UNCHANGED <<mpd, args, uris, p, r, stream, frame, streams, resolved, result, raised>>

\* --------------------------------------------------------------- walk_s
\* for s in ss: the next S and its interval, or the return of walk_s, back in
\* walk_representation, which appends the stream.
walk_s_next ==
    /\ pc = "walk_s"
    /\ LET ss == Val(stream.tl)
           st == Val(stream.st)
       IN  /\ (IF frame.si = 0 THEN TRUE ELSE frame.n >= ss[frame.si].r)
           /\ IF frame.si < Len(ss)
              THEN IF st.timescale = 0
                   THEN Raise("ZeroDivisionError")
                   ELSE /\ frame' = [frame EXCEPT !.si = @ + 1, !.n = 0,
                                        !.interval = <<ss[frame.si + 1].d, st.timescale>>]
                        /\ UNCHANGED <<mpd, args, uris, pc, p, a, r, stream, streams,
                                       resolved, result, raised>>
              ELSE /\ streams' = Append(streams, stream)
                   /\ stream' = NoStream
                   /\ frame' = NoFrame
                   /\ pc' = "representations"
                   /\ r' = r + 1
                   /\ UNCHANGED <<mpd, args, uris, p, a, resolved, result, raised>>

\* The media url of one turn of walk_s's inner loop, with the counters after
\* it; exc is the exception the formatting raises.
WalkSUrl(st, s, representation, start_number, time_offset) ==
    LET u0 == get_media_url(st)
        u1 == IF Contains(u0, "$Bandwidth$")
              THEN Replace(u0, "$Bandwidth$", Str(representation.bandwidth)) ELSE u0
        hasNumber == Contains(u1, "$Number$")
        u2 == IF hasNumber THEN Replace(u1, "$Number$", Str(start_number)) ELSE u1
        n2 == IF hasNumber THEN start_number + 1 ELSE start_number
        \* f'{start_number:>int(length)}': '>int(length)' is no format
        \* specifier of an int
        exc == IF ~IsNone(MatchFmt(u2)) THEN "ValueError" ELSE ""
        u3 == IF Contains(u2, "$RepresentationID$")
              THEN Replace(u2, "$RepresentationID$", <<representation.id>>) ELSE u2
        hasTime == Contains(u3, "$Time$")
        u4 == IF hasTime THEN Replace(u3, "$Time$", Str(time_offset)) ELSE u3
        t4 == IF hasTime THEN time_offset + s.d ELSE time_offset
    IN  [exc |-> exc, media_url |-> u4, start_number |-> n2, time_offset |-> t4]

\* for number in range(s.r): one segment.
walk_s ==
    /\ pc = "walk_s"
    /\ frame.si >= 1
    /\ frame.n < Val(stream.tl)[frame.si].r
    /\ LET u == WalkSUrl(Val(stream.st), Val(stream.tl)[frame.si], CurRepresentation,
                         frame.start_number, frame.time_offset)
       IN  IF u.exc # ""
           THEN Raise(u.exc)
           ELSE /\ stream' = set_media_url(set_segment_duration(stream, frame.interval),
                                           u.media_url)
                /\ frame' = [frame EXCEPT !.n = @ + 1, !.start_number = u.start_number,
                                          !.time_offset = u.time_offset]
                /\ UNCHANGED <<mpd, args, uris, pc, p, a, r, streams, resolved, result, raised>>

\* ---------------------------------------------------------- generate_v1
GenerateV1Url(st, rid, number) ==
    LET u0 == get_media_url(st)
        u1 == IF Contains(u0, "$Number$") THEN Replace(u0, "$Number$", Str(number)) ELSE u0
        m == MatchFmt(u1)
        u2 == IF ~IsNone(m)
              THEN Replace(u1, Val(m), FormatRight(Str(number), "0", PyInt(FmtLength(Val(m)))))
              ELSE u1
    IN  IF Contains(u2, "$RepresentationID$")
        THEN Replace(u2, "$RepresentationID$", <<rid>>) ELSE u2

\* for number in range(startNumber, repeat + startNumber): one segment.
generate_v1 ==
    /\ pc = "generate_v1"
    /\ frame.number < frame.stop
    /\ stream' = set_media_url(stream, GenerateV1Url(Val(stream.st), CurRepresentation.id,
                                                     frame.number))
    /\ frame' = [frame EXCEPT !.number = @ + 1]
    /\ UNCHANGED <<mpd, args, uris, pc, p, a, r, streams, resolved, result, raised>>

\* After the loop: every segment gets the interval; back in
\* walk_representation, which appends the stream.
generate_v1_return ==
    /\ pc = "generate_v1"
    /\ frame.number >= frame.stop
    /\ streams' = Append(streams, set_segments_duration(stream, frame.interval))
    /\ stream' = NoStream
    /\ frame' = NoFrame
    /\ pc' = "representations"
    /\ r' = r + 1
    /\ UNCHANGED <<mpd, args, uris, p, a, resolved, result, raised>>

\* ------------------------------------------------- walk_period, the end
\* A trim that drops every trailing segment without url, not only the last.
RECURSIVE TrimStreamAll(_)
TrimStreamAll(s) ==
    IF s.segments # <<>> /\ s.segments[Len(s.segments)].url = <<>>
    THEN TrimStreamAll([s EXCEPT !.segments = SubSeq(@, 1, Len(@) - 1)])
    ELSE s

\* if stream.segments[-1].url == '': stream.segments.pop(-1)
TrimStream(s) ==
    IF s.segments[Len(s.segments)].url = <<>>
    THEN [s EXCEPT !.segments = SubSeq(@, 1, Len(@) - 1)]
    ELSE s

\* for stream in streams: the trim; segments[-1] of an empty list raises.
Trim ==
    /\ pc = "trim"
    /\ IF \E i \in 1..Len(streams) : streams[i].segments = <<>>
       THEN Raise("IndexError")
       ELSE /\ resolved' = streams
            /\ streams' = [i \in 1..Len(streams) |-> TrimStream(streams[i])]
            /\ pc' = "merge"
            /\ UNCHANGED <<mpd, args, uris, p, a, r, stream, frame, result, raised>>

\* if len(periods) == 1 or self.args.split: return streams
ReturnStreams ==
    /\ pc = "merge"
    /\ Len(mpd.Period) = 1 \/ args.split
    /\ result' = streams
    /\ pc' = "done"
    /\ UNCHANGED <<mpd, args, uris, p, a, r, stream, frame, streams, resolved, raised>>

\* A merge that keeps the last stream of a key in place of appending it.
RECURSIVE MergeStreamsOverwrite(_, _)
MergeStreamsOverwrite(skey_stream, ss) ==
    IF ss = <<>> THEN skey_stream
    ELSE LET s == Head(ss)
             at == {i \in 1..Len(skey_stream) : skey_stream[i].skey = s.skey}
         IN  MergeStreamsOverwrite(IF at # {}
                                   THEN [skey_stream EXCEPT ![CHOOSE i \in at : TRUE] = s]
                                   ELSE Append(skey_stream, s),
                                   Tail(ss))

\* skey_stream after the loop over ss, as the list of its values: a dict
\* keeps its keys in the order of their first insertion.
RECURSIVE MergeStreams(_, _)
MergeStreams(skey_stream, ss) ==
    IF ss = <<>> THEN skey_stream
    ELSE LET s == Head(ss)
             at == {i \in 1..Len(skey_stream) : skey_stream[i].skey = s.skey}
         IN  MergeStreams(IF at # {}
                          THEN [skey_stream EXCEPT ![CHOOSE i \in at : TRUE] = update(@, s)]
                          ELSE Append(skey_stream, s),
                          Tail(ss))

Merge ==
    /\ pc = "merge"
    /\ ~(Len(mpd.Period) = 1 \/ args.split)
    /\ result' = MergeStreams(<<>>, streams)
    /\ pc' = "done"
    /\ UNCHANGED <<mpd, args, uris, p, a, r, stream, frame, streams, resolved, raised>>

Next ==
    \/ WalkPeriod
    \/ NextPeriod
    \/ walk_adaptationset
    \/ walk_representation
    \/ walk_representation_return
    \/ walk_s_next
    \/ walk_s
    \/ generate_v1
    \/ generate_v1_return
    \/ Trim
    \/ ReturnStreams
    \/ Merge

Spec == Init /\ [][Next]_vars

\* ------------------------------------------------------ reading a run
\* The resolved streams, each still ending in its open segment.
Untrimmed == IF pc \in {"merge", "done"} THEN resolved ELSE streams

\* The filled media segments of a stream of Untrimmed.
Emitted(s) ==
    SelectSeq(SubSeq(s.segments, 1, Len(s.segments) - 1), LAMBDA g : g.segment_type = "normal")

\* The raise left the Representation at <<p, a, r>> unresolved.
RaisedAt(o) == pc = "raised" /\ raised # "IndexError" /\ o = <<p, a, r>>

\* The Representations walk_representation is through with.
Settled ==
    {Untrimmed[i].origin : i \in 1..Len(Untrimmed)}
    \cup (IF pc = "raised" /\ raised # "IndexError" THEN {<<p, a, r>>} ELSE {})

AdaptationSetOf(o) == mpd.Period[o[1]].AdaptationSet[o[2]]
RepresentationOf(o) == AdaptationSetOf(o).Representation[o[3]]
AddressingOf(o) == Addressing(AdaptationSetOf(o), RepresentationOf(o))

\* What was emitted for a settled Representation: nothing when it raised.
EmittedFor(o) ==
    IF \E i \in 1..Len(Untrimmed) : Untrimmed[i].origin = o
    THEN Emitted(Untrimmed[CHOOSE i \in 1..Len(Untrimmed) : Untrimmed[i].origin = o])
    ELSE <<>>

RECURSIVE Flatten(_)
Flatten(ss) == IF ss = <<>> THEN <<>> ELSE Head(ss) \o Flatten(Tail(ss))

\* n in exactly width digits, zeros on the left, when it has fewer; its plain
\* decimal digits otherwise.
ZeroPadded(n, width) ==
    LET ds == Str(n)
    IN  IF Len(ds) < width
        THEN [i \in 1..width |-> IF i <= width - Len(ds) THEN "0" ELSE ds[i - (width - Len(ds))]]
        ELSE ds

FmtWidth(tok) == IF tok = "$Number%02d$" THEN 2 ELSE 3

\* The url a template stands for, given the value of each placeholder.
Rendered(template, rid, bandwidth, number, time) ==
    Flatten([i \in 1..Len(template) |->
        CASE template[i] = "$Number$" -> Str(number)
          [] template[i] \in FmtTokens -> ZeroPadded(number, FmtWidth(template[i]))
          [] template[i] = "$Time$" -> Str(time)
          [] template[i] = "$RepresentationID$" -> <<rid>>
          [] template[i] = "$Bandwidth$" -> Str(bandwidth)
          [] OTHER -> <<template[i]>>])

UsesNumber(template) ==
    \E i \in 1..Len(template) : template[i] = "$Number$" \/ template[i] \in FmtTokens

\* The S of the k-th segment (k from 1) of a timeline, run by run.
RECURSIVE Expanded(_)
Expanded(tl) ==
    IF tl = <<>> THEN <<>> ELSE [i \in 1..Head(tl).r |-> Head(tl)] \o Expanded(Tail(tl))

RECURSIVE SumD(_, _)
SumD(runs, k) == IF k = 0 THEN 0 ELSE runs[k].d + SumD(runs, k - 1)

SameFloat(x, y) == x # <<>> /\ y # <<>> /\ x[1] * y[2] = y[1] * x[2]

StreamOf(o) == Untrimmed[CHOOSE i \in 1..Len(Untrimmed) : Untrimmed[i].origin = o]
HasStream(o) == \E i \in 1..Len(Untrimmed) : Untrimmed[i].origin = o

\* Every placeholder of the template is one both walk_s and generate_v1 replace.
Common(template) ==
    \A i \in 1..Len(template) : template[i] \notin {"$Time$", "$Bandwidth$"}

\* ------------------------------------------------------------------ claims

\* C1: on the timeline path every settled Representation has one media
\* segment per repeat of every S run (r_1 + ... + r_k in all), and the k-th
\* lasts d / timescale of the run it belongs to, in the order of the runs.
C1_TimelineExpansion ==
    \A o \in Settled :
        AddressingOf(o).to = "walk_s" =>
            LET st == Val(AddressingOf(o).st)
                runs == Expanded(Val(AddressingOf(o).tl))
                em == EmittedFor(o)
            IN  /\ Len(em) = Len(runs)
                /\ \A k \in 1..Len(em) : SameFloat(em[k].duration, <<runs[k].d, st.timescale>>)

\* C2: on the computed-numbering path, where round(period.duration /
\* (duration / timescale)) is defined, that many media segments are emitted,
\* the k-th carries startNumber + k and each lasts duration / timescale.
C2_ComputedNumbering ==
    \A o \in Settled :
        LET go == AddressingOf(o)
            st == Val(go.st)
            pd == mpd.Period[o[1]].duration
            em == EmittedFor(o)
        IN  (go.to = "generate_v1" /\ ~IsNone(pd) /\ st.duration # 0 /\ st.timescale # 0) =>
                /\ Len(em) = Round(pd[1] * st.timescale, pd[2] * st.duration)
                /\ \A k \in 1..Len(em) :
                    /\ SameFloat(em[k].duration, <<st.duration, st.timescale>>)
                    /\ Common(st.media) =>
                        em[k].url = fix_url(StreamOf(o),
                                        Rendered(st.media, RepresentationOf(o).id,
                                                 RepresentationOf(o).bandwidth,
                                                 st.startNumber + k - 1, 0))

\* C3: with $Number%0Nd$ in the media template, on either path, formatting
\* the number raises nothing and every emitted url holds, in place of the
\* placeholder, the segment's number in N digits, zeros on the left, or its
\* plain decimal digits when it has N digits or more.
C3_ZeroPaddedNumber ==
    /\ ~(pc = "raised" /\ raised = "ValueError")
    /\ \A o \in Settled :
        LET go == AddressingOf(o)
            st == Val(go.st)
            em == EmittedFor(o)
        IN  (go.to \in {"walk_s", "generate_v1"} /\ ~IsNone(MatchFmt(st.media))
                /\ Common(st.media)) =>
                \A k \in 1..Len(em) :
                    em[k].url = fix_url(StreamOf(o),
                                    Rendered(st.media, RepresentationOf(o).id,
                                             RepresentationOf(o).bandwidth,
                                             st.startNumber + k - 1, 0))

\* C4: walk_period raises nothing, whatever the shape of the tree: no
\* TypeError, ZeroDivisionError or IndexError leaves it (the ValueError of
\* the number formatting is C3's).
C4_NoException == ~(pc = "raised" /\ raised # "ValueError")

\* No direct link is taken: the Representation is left to its templates.
Templated(o) == AddressingOf(o).to \notin {"subtitle", "base2url"}

\* More than one SegmentTemplate where one is expected (at the AdaptationSet,
\* or at the Representation when the AdaptationSet has none), or more than
\* one SegmentTimeline in the one template found.
Ambiguous(o) ==
    LET ats == AdaptationSetOf(o).SegmentTemplate
        rts == RepresentationOf(o).SegmentTemplate
    IN  \/ Len(ats) > 1
        \/ Len(ats) = 1 /\ Len(ats[1].SegmentTimeline) > 1
        \/ Len(ats) = 0 /\ Len(rts) > 1
        \/ Len(ats) = 0 /\ Len(rts) = 1 /\ Len(rts[1].SegmentTimeline) > 1

\* Every Representation of every AdaptationSet that is not a thumbnail set.
Walked ==
    {<<i, j, k>> \in (1..MaxPeriods) \X (1..2) \X (1..2) :
        /\ i <= Len(mpd.Period)
        /\ j <= Len(mpd.Period[i].AdaptationSet)
        /\ k <= Len(mpd.Period[i].AdaptationSet[j].Representation)
        /\ mpd.Period[i].AdaptationSet[j].mimeType # Jpeg}

\* C5: a Representation left to its templates, with more than one
\* SegmentTemplate where one is expected or more than one SegmentTimeline in
\* its template, gets no media segment, and once walk_period has returned
\* every other Representation has its stream.
C5_AmbiguousYieldsNothing ==
    /\ \A o \in Settled : (Templated(o) /\ Ambiguous(o)) => EmittedFor(o) = <<>>
    /\ pc = "done" => \A o \in Walked : HasStream(o)

\* C6: a stream resolved as a single static file comes from a
\* Representation with exactly one BaseURL, no subtitle Role, and no
\* SegmentTemplate or SegmentTimeline of its own or of its AdaptationSet.
C6_StaticFileOnlyWithoutTemplates ==
    \A i \in 1..Len(Untrimmed) :
        Untrimmed[i].path = "base2url" =>
            LET as == AdaptationSetOf(Untrimmed[i].origin)
                rep == RepresentationOf(Untrimmed[i].origin)
            IN  /\ Len(rep.BaseURL) = 1
                /\ ~(Len(as.Role) = 1 /\ as.Role[1] = "subtitle")
                /\ Len(rep.SegmentTemplate) = 0
                /\ Len(rep.SegmentTimeline) = 0
                /\ Len(as.SegmentTemplate) = 0

\* The Representation's mimeType if present, else its AdaptationSet's.
ResolvedMime(o) ==
    IF RepresentationOf(o).mimeType # NoneStr
    THEN RepresentationOf(o).mimeType ELSE AdaptationSetOf(o).mimeType

\* C8: no stream, resolved or returned, belongs to a Representation whose
\* resolved mime type is image/jpeg.
C8_NoThumbnailStream ==
    /\ \A i \in 1..Len(streams) : ResolvedMime(streams[i].origin) # Jpeg
    /\ \A i \in 1..Len(result) : ResolvedMime(result[i].origin) # Jpeg

\* C9: on the timeline path the k-th media segment (k from 0, over all the
\* repeats of all the S runs) is emitted with startNumber + k for the number
\* placeholder and presentationTimeOffset plus the d of all segments before
\* it for $Time$; inside the loop each counter has advanced once per emitted
\* segment if its placeholder is in the template and not at all otherwise.
C9_CountersThreaded ==
    /\ \A o \in Settled :
        AddressingOf(o).to = "walk_s" =>
            LET st == Val(AddressingOf(o).st)
                runs == Expanded(Val(AddressingOf(o).tl))
                em == EmittedFor(o)
            IN  \A k \in 1..Len(runs) :
                    /\ k <= Len(em)
                    /\ em[k].url = fix_url(StreamOf(o),
                                       Rendered(st.media, RepresentationOf(o).id,
                                                RepresentationOf(o).bandwidth,
                                                st.startNumber + k - 1,
                                                st.presentationTimeOffset + SumD(runs, k - 1)))
    /\ pc = "walk_s" =>
            LET st == Val(stream.st)
                runs == Expanded(Val(stream.tl))
                done == Len(Emitted(stream))
            IN  /\ frame.start_number =
                        st.startNumber + (IF UsesNumber(st.media) THEN done ELSE 0)
                /\ frame.time_offset =
                        st.presentationTimeOffset
                        + (IF Contains(st.media, "$Time$") THEN SumD(runs, done) ELSE 0)

\* The segments of the trimmed streams with key, in the order of the streams.
RECURSIVE SegmentsOfKey(_, _)
SegmentsOfKey(key, i) ==
    IF i > Len(streams) THEN <<>>
    ELSE (IF streams[i].skey = key THEN streams[i].segments ELSE <<>>)
         \o SegmentsOfKey(key, i + 1)

FirstWith(key) == CHOOSE i \in 1..Len(streams) :
    streams[i].skey = key /\ \A j \in 1..(i - 1) : streams[j].skey # key

\* C7: from a manifest of several Periods, without split, walk_period
\* returns one stream per identity key, in the order in which the keys first
\* occur among the trimmed streams, and the segments of each are those of all
\* the trimmed streams with its key, in their order, numbered 0..n-1.
C7_MergeByKey ==
    (pc = "done" /\ Len(mpd.Period) > 1 /\ ~args.split) =>
        /\ \A i, j \in 1..Len(result) : i # j => result[i].skey # result[j].skey
        /\ {result[i].skey : i \in 1..Len(result)} = {streams[i].skey : i \in 1..Len(streams)}
        /\ \A i, j \in 1..Len(result) :
                i < j => FirstWith(result[i].skey) < FirstWith(result[j].skey)
        /\ \A i \in 1..Len(result) :
                LET all == SegmentsOfKey(result[i].skey, 1)
                    got == result[i].segments
                IN  /\ Len(got) = Len(all)
                    /\ \A k \in 1..Len(got) :
                        /\ got[k].index = k - 1
                        /\ got[k].url = all[k].url
                        /\ got[k].duration = all[k].duration
                        /\ got[k].segment_type = all[k].segment_type

\* Two streams returned, one of them made of the segments of two or more
\* trimmed streams with its key.
C7_Merged ==
    /\ pc = "done" /\ Len(mpd.Period) > 1 /\ ~args.split
    /\ Len(result) = 2
    /\ \E i \in 1..Len(result) :
        /\ Cardinality({j \in 1..Len(streams) :
                streams[j].skey = result[i].skey /\ streams[j].segments # <<>>}) >= 2
        /\ Len(result[i].segments) >= 4

\* C10: the trim begins when every Period is walked and ends before the
\* merge; it takes the last segment, and only it, from each stream whose
\* last segment has no url, and leaves every other stream as it was.
C10_TrimLastEmpty ==
    /\ pc = "trim" => p > Len(mpd.Period) /\ result = <<>>
    /\ pc \in {"merge", "done"} =>
        /\ Len(streams) = Len(resolved)
        /\ \A i \in 1..Len(streams) :
            LET before == resolved[i].segments
                after == streams[i].segments
            IN  /\ [streams[i] EXCEPT !.segments = before] = resolved[i]
                /\ Len(after) = Len(before) - (IF before[Len(before)].url = <<>> THEN 1 ELSE 0)
                /\ \A k \in 1..Len(after) : after[k] = before[k]

\* A trimmed stream that lost its last segment and kept an earlier one
\* without url.
C10_Trimmed ==
    /\ pc \in {"merge", "done"}
    /\ \E i \in 1..Len(streams) :
        /\ Len(streams[i].segments) = Len(resolved[i].segments) - 1
        /\ Len(streams[i].segments) >= 2
        /\ streams[i].segments[Len(streams[i].segments)].url = <<>>

=============================================================================
